---- MODULE Spec2Model ----
(***************************************************************************)
(* A model of src/scraper.py: the release-note scraper.                    *)
(*                                                                         *)
(* The run is one sequential process.  Its position is pc:                 *)
(*   "loop"     at the head of the page loop (line 252)                    *)
(*   "fetch"    inside fetch_with_retry, at the head of its retry loop     *)
(*   "fetched"  fetch_with_retry has returned into html (line 259)         *)
(*   "content"  the title is extracted (line 269)                          *)
(*   "convert"  the main content is extracted (line 273)                   *)
(*   "validate" the markdown is produced (line 282)                        *)
(*   "write"    the loop is left and the sections are sorted (line 312)    *)
(*   "done"     scrape_release_notes has returned (line 338)               *)
(*   "aborted"  scrape_release_notes was left by an exception              *)
(*                                                                         *)
(* Python values: None is the record None; a str is a record whose field   *)
(* str holds its characters, a sequence of one-character strings.  The     *)
(* HTML parsers (BeautifulSoup, readability, html2text) are libraries: a   *)
(* page body carries, as fields, what each of them returns on it.          *)
(***************************************************************************)
EXTENDS Integers, Sequences, FiniteSets, TLC

(***************************************************************************)
(* Bounds of the model.                                                    *)
(***************************************************************************)
MinId == 4
MaxId == 6
MaxRetries == 3
\* lengths are tried from Margin below a threshold to Margin above it
Margin == 1

(***************************************************************************)
(* Python values and string operations.                                    *)
(***************************************************************************)
None == [none |-> TRUE]

Rep(c, n) == [i \in 1..n |-> c]

\* a str, and its characters
S(chars) == [str |-> chars]
Text(v) == v.str

Whitespace == {" ", "\n", "\t", "\r"}

\* F(e), with e evaluated once
With(e, F(_)) == CHOOSE r \in {F(v) : v \in {e}} : TRUE

\* str.strip()
StripOf(s) ==
    IF \A i \in 1..Len(s) : s[i] \in Whitespace THEN <<>>
    ELSE LET lo == CHOOSE i \in 1..Len(s) :
                       s[i] \notin Whitespace /\ \A j \in 1..(i - 1) : s[j] \in Whitespace
             hi == CHOOSE i \in 1..Len(s) :
                       s[i] \notin Whitespace /\ \A j \in (i + 1)..Len(s) : s[j] \in Whitespace
         IN  SubSeq(s, lo, hi)
Strip(s) == With(s, StripOf)

UpperCase == <<"A","B","C","D","E","F","G","H","I","J","K","L","M","N","O","P","Q","R","S","T","U","V","W","X","Y","Z">>
LowerCase == <<"a","b","c","d","e","f","g","h","i","j","k","l","m","n","o","p","q","r","s","t","u","v","w","x","y","z">>

ToLower ==
    [c \in {UpperCase[k] : k \in 1..Len(UpperCase)} |->
        LowerCase[CHOOSE k \in 1..Len(UpperCase) : UpperCase[k] = c]]

\* str.lower()
LowerOf(s) == [i \in 1..Len(s) |-> IF s[i] \in DOMAIN ToLower THEN ToLower[s[i]] ELSE s[i]]
Lower(s) == With(s, LowerOf)

\* str.find(sub) + 1: the first position of sub in s, 0 when there is none
Find(s, sub) ==
    With(s, LAMBDA t :
        With({i \in 1..(Len(t) - Len(sub) + 1) : SubSeq(t, i, i + Len(sub) - 1) = sub},
             LAMBDA at : IF at = {} THEN 0 ELSE CHOOSE i \in at : \A j \in at : i <= j))

\* sub in s
Contains(s, sub) == Find(s, sub) # 0

\* str.split(sep)
RECURSIVE Split(_, _)
Split(s, sep) ==
    With(s, LAMBDA t :
        With(Find(t, sep), LAMBDA i :
            IF i = 0 THEN <<t>>
            ELSE <<SubSeq(t, 1, i - 1)>> \o Split(SubSeq(t, i + Len(sep), Len(t)), sep)))

\* sep.join(parts)
RECURSIVE Join(_, _)
Join(parts, sep) ==
    With(parts, LAMBDA ps :
        IF ps = <<>> THEN <<>>
        ELSE IF Len(ps) = 1 THEN ps[1]
        ELSE ps[1] \o sep \o Join(Tail(ps), sep))

\* str.split() without a separator: the runs of non-whitespace characters
RECURSIVE Words(_)
Words(s) ==
    With(Strip(s), LAMBDA t :
        With({i \in 1..Len(t) : t[i] \in Whitespace}, LAMBDA ws :
            IF t = <<>> THEN <<>>
            ELSE IF ws = {} THEN <<t>>
            ELSE With(CHOOSE k \in ws : \A j \in ws : k <= j, LAMBDA i :
                     <<SubSeq(t, 1, i - 1)>> \o Words(SubSeq(t, i + 1, Len(t))))))

\* Python truthiness of an Optional[str]: neither None nor the empty string.
\* A page body is a str whose text is kept by its length only (field size).
Truthy(v) ==
    /\ v # None
    /\ IF "str" \in DOMAIN v THEN v.str # <<>> ELSE v.size > 0

(***************************************************************************)
(* The pipeline's pure stages.                                             *)
(***************************************************************************)
MinContentLength == 100
MinValidLength == 50

\* a library call that raises, with the exception's message
Raise(msg) == [raise |-> msg]
Raised(v) == "raise" \in DOMAIN v

Untitled == S(<<"U","n","t","i","t","l","e","d">>)

\* (a changed extract_main_content: the length is taken without trimming)
extract_main_contentUntrimmed(html) ==
    LET content == html.summary
    IN  IF Raised(content) THEN None
        ELSE IF Truthy(content) /\ Len(Text(content)) < MinContentLength THEN None
        ELSE content

\* extract_main_content(html): html.summary is readability's doc.summary()
extract_main_content(html) ==
    LET content == html.summary
    IN  IF Raised(content) THEN None
        ELSE IF Truthy(content) /\ Len(Strip(Text(content))) < MinContentLength THEN None
        ELSE content

\* html_to_markdown(html): html.md is html2text's converter.handle(html)
html_to_markdown(html) ==
    IF Raised(html.md)
    THEN S(<<"E","r","r","o","r"," ","c","o","n","v","e","r","t","i","n","g"," ","c","o","n","t","e","n","t",":"," ">>
           \o html.md.raise)
    ELSE LET lines   == Split(Text(html.md), <<"\n">>)
             kept    == SelectSeq(lines, LAMBDA l : Strip(l) # <<>>)
             cleaned == Join([i \in 1..Len(kept) |-> Strip(kept[i])], <<"\n">>)
             paras   == SelectSeq(Split(cleaned, <<"\n", "\n">>), LAMBDA q : q # <<>>)
         IN  S(Join(paras, <<"\n", "\n">>))

\* extract_title(html): html.title is soup.title.string (None when there is no
\* title element or it has no single string), html.h1 the text of soup.find('h1')
extract_title(html) ==
    IF Raised(html.title) THEN Untitled
    ELSE IF Truthy(html.title)
    THEN LET title == Join(Words(Strip(Text(html.title))), <<" ">>)
         IN  IF title # <<>> THEN S(title) ELSE Untitled
    ELSE IF html.h1 # None
    THEN LET text == Strip(Text(html.h1))
         IN  IF text # <<>> THEN S(text) ELSE Untitled
    ELSE Untitled

error_indicators ==
    { <<"4","0","4"," ","n","o","t"," ","f","o","u","n","d">>,
      <<"p","a","g","e"," ","n","o","t"," ","f","o","u","n","d">>,
      <<"a","c","c","e","s","s"," ","d","e","n","i","e","d">>,
      <<"f","o","r","b","i","d","d","e","n">>,
      <<"e","r","r","o","r"," ","o","c","c","u","r","r","e","d">> }

\* (a changed validate_content: content of exactly the minimum length fails)
validate_contentAtMost(content) ==
    IF ~Truthy(content) \/ Len(Strip(Text(content))) <= MinValidLength THEN FALSE
    ELSE LET content_lower == Lower(Text(content))
         IN  ~ \E indicator \in error_indicators : Contains(content_lower, indicator)

\* validate_content(content)
validate_content(content) ==
    IF ~Truthy(content) \/ Len(Strip(Text(content))) < MinValidLength THEN FALSE
    ELSE LET content_lower == Lower(Text(content))
         IN  ~ \E indicator \in error_indicators : Contains(content_lower, indicator)

(***************************************************************************)
(* The pages a server may answer with (the body of a 200 response).        *)
(***************************************************************************)
\* an HTML fragment: its text, and what html2text renders it to
Fragment(chars, md) == [str |-> chars, md |-> md]

Page(size, title, h1, summary) ==
    [size |-> size, title |-> title, h1 |-> h1, summary |-> summary]

\* a 200 response with an empty body
PageEmpty == Page(0, None, None, S(<<>>))

\* a declared title to normalise; content exactly at both thresholds
PageGood ==
    Page(400, S(<<" "," ","R","e","l","e","a","s","e"," ","\n"," ","N","o","t","e","s"," "," ">>), None,
         Fragment(<<" ">> \o Rep("x", 100) \o <<"\n">>,
                  S(<<"\n", " ">> \o Rep("a", 50) \o <<" ", "\n", "\n">>)))

\* no declared title, a level-1 heading; several paragraphs
PageH1 ==
    Page(500, None, S(<<" ","W","h","a","t"," ","i","s"," ","n","e","w","\n">>),
         Fragment(Rep("y", 120),
                  S(Rep("b", 30) \o <<" ", "\n", "\n", "\n", "\t">> \o Rep("c", 30) \o <<"\n">>)))

\* a blank declared title beside a heading; a content region one character short
PageShort ==
    Page(300, S(<<" ", "\n", " ">>), S(<<"N","o","t","e","s">>),
         Fragment(<<" ", " ">> \o Rep("x", 99) \o <<" ", " ">>, S(Rep("a", 99))))

\* neither title nor heading; readability raises
PageNoSummary == Page(200, None, None, Raise(<<"e">>))

\* an error page that is long enough
PageError ==
    Page(350, S(<<"R","e","l","e","a","s","e"," ","N","o","t","e","s">>), None,
         Fragment(Rep("z", 150),
                  S(Rep("d", 40) \o <<" ","P","a","g","e"," ","N","o","t"," ","F","o","u","n","d">>)))

\* a long region that renders to 40 characters
PageThin ==
    Page(450, S(<<"R","e","l","e","a","s","e"," ","N","o","t","e","s">>), None,
         Fragment(Rep("w", 130), S(<<" ">> \o Rep("e", 40) \o <<"\n">>)))

\* the bodies served in the runs: an empty one, one that is scraped, one whose
\* extraction fails, one whose validation fails
Bodies == {PageEmpty, PageGood, PageShort, PageError}

(***************************************************************************)
(* The state of a run.                                                     *)
(***************************************************************************)
VARIABLES
    start_id,      \* the arguments of scrape_release_notes
    end_id,
    max_retries,   \* config.max_retries
    pc,            \* the position of the run
    page_id,       \* the loop variable: the page in work, or the next one
    attempt,       \* fetch_with_retry's loop variable
    calls,         \* what the fetch of page_id did, in order: client.get and time.sleep
    html,          \* the locals of the loop body
    title,
    main_html,
    markdown,
    stats,         \* ScraperStats
    results,       \* List[ScrapeResult]
    sections,      \* List[Tuple[int, str]]
    timeline,      \* the fetches started and the polite delays slept, in order
    archive,       \* the output file: None until written
    stats_file,    \* scraper_stats.json: None until written
    returned,      \* what scrape_release_notes returned: None until it has
    arg,           \* a stage called on its own: its argument and what it returned;
    ret            \* both None in a run of scrape_release_notes

vars == <<start_id, end_id, max_retries, pc, page_id, attempt, calls, html, title,
          main_html, markdown, stats, results, sections, timeline, archive,
          stats_file, returned, arg, ret>>

unit == <<arg, ret>>
config == <<start_id, end_id, max_retries>>
locals == <<title, main_html, markdown>>
outputs == <<archive, stats_file, returned>>

\* the status codes and the exceptions client.get may answer with; an
\* exception is named by the first except clause that catches it
Statuses == {200, 404, 429, 500, 403}
Errors == {"TimeoutException", "NetworkError", "HTTPError", "Exception"}

Get(status) == [op |-> "get", status |-> status]
GetOK(body) == [op |-> "get", status |-> 200, text |-> body]
GetRaised(error) == [op |-> "get", raised |-> error]
Sleep(secs) == [op |-> "sleep", secs |-> secs]

\* ScraperStats.__init__
ScraperStats ==
    [total_pages_checked |-> 0, successful_scrapes |-> 0, failed_scrapes |-> 0,
     not_found |-> 0]

\* (a changed to_dict: the rate is taken over the pages that were fetched)
to_dictOverFetched(s) ==
    [total_pages_checked |-> s.total_pages_checked,
     successful_scrapes  |-> s.successful_scrapes,
     failed_scrapes      |-> s.failed_scrapes,
     not_found           |-> s.not_found,
     success_rate        |-> IF s.total_pages_checked > 0
                             THEN <<s.successful_scrapes, s.successful_scrapes + s.failed_scrapes>>
                             ELSE <<0, 1>>]

\* ScraperStats.to_dict; success_rate is the fraction <<numerator, denominator>>
to_dict(s) ==
    [total_pages_checked |-> s.total_pages_checked,
     successful_scrapes  |-> s.successful_scrapes,
     failed_scrapes      |-> s.failed_scrapes,
     not_found           |-> s.not_found,
     success_rate        |-> IF s.total_pages_checked > 0
                             THEN <<s.successful_scrapes, s.total_pages_checked>>
                             ELSE <<0, 1>>]

\* ScrapeResult.__init__
ScrapeResult(id, url, success, t, content, error) ==
    [page_id |-> id, url |-> url, success |-> success, title |-> t,
     content |-> content, error |-> error]

\* config.base_url.format(page_id)
Url(id) == [base_url |-> "https://x/{}", page_id |-> id]

FetchErrorMsg ==
    S(<<"P","a","g","e"," ","n","o","t"," ","f","o","u","n","d"," ","o","r"," ","f","a","i","l","e","d"," ","t","o"," ","f","e","t","c","h">>)
ExtractErrorMsg ==
    S(<<"F","a","i","l","e","d"," ","t","o"," ","e","x","t","r","a","c","t"," ","m","e","a","n","i","n","g","f","u","l"," ","c","o","n","t","e","n","t">>)
ValidationErrorMsg ==
    S(<<"E","x","t","r","a","c","t","e","d"," ","c","o","n","t","e","n","t"," ","f","a","i","l","e","d"," ","v","a","l","i","d","a","t","i","o","n">>)

Init ==
    /\ start_id \in MinId..MaxId
    /\ end_id \in (start_id - 1)..MaxId
    /\ max_retries \in 0..MaxRetries
    /\ pc = "loop"
    /\ page_id = start_id
    /\ attempt = 0
    /\ calls = <<>>
    /\ html = None
    /\ title = None
    /\ main_html = None
    /\ markdown = None
    /\ stats = ScraperStats
    /\ results = <<>>
    /\ sections = <<>>
    /\ timeline = <<>>
    /\ archive = None
    /\ stats_file = None
    /\ returned = None
    /\ arg = None
    /\ ret = None

(***************************************************************************)
(* fetch_with_retry: one action for each branch of the retry loop's body.  *)
(***************************************************************************)
\* (a changed Backoff: the backoff grows linearly)
BackoffLinear(a) == 2 * a

\* the backoff before the next attempt
Backoff(a) == 2 ^ a

\* (a changed RetryAllowed: the last attempt is slept on too)
RetryAllowedOffByOne(a) == a < max_retries

\* whether a transient failure of this attempt is slept on and retried
RetryAllowed(a) == a < max_retries - 1

\* "return value" of fetch_with_retry, assigned to html at line 259
Return(value) ==
    /\ html' = value
    /\ pc' = "fetched"
    /\ UNCHANGED attempt

\* a retried branch: "if attempt < max_retries - 1: time.sleep(2 ** attempt);
\* continue", and otherwise on to the next turn of the loop
RetryOrFallThrough(call) ==
    /\ calls' = IF RetryAllowed(attempt)
                THEN calls \o <<call, Sleep(Backoff(attempt))>>
                ELSE Append(calls, call)
    /\ attempt' = attempt + 1
    /\ UNCHANGED <<pc, html>>

InFetch == pc = "fetch" /\ attempt < max_retries

FetchFrame == UNCHANGED <<config, unit, page_id, locals, stats, results, sections, timeline, outputs>>

FetchOK ==
    /\ InFetch
    /\ \E body \in Bodies :
          /\ calls' = Append(calls, GetOK(body))
          /\ Return(body)
    /\ FetchFrame

\* (a changed FetchNotFound: a 404 is retried like a server error)
FetchNotFoundRetried ==
    /\ InFetch
    /\ RetryOrFallThrough(Get(404))
    /\ FetchFrame

FetchNotFound ==
    /\ InFetch
    /\ calls' = Append(calls, Get(404))
    /\ Return(None)
    /\ FetchFrame

\* (a changed FetchRateLimited: a 429 is waited out without using up an attempt)
FetchRateLimitedNotCounted ==
    /\ InFetch
    /\ calls' = calls \o <<Get(429), Sleep(Backoff(attempt))>>
    /\ UNCHANGED <<pc, html, attempt>>
    /\ FetchFrame

FetchRateLimited ==
    /\ InFetch
    /\ RetryOrFallThrough(Get(429))
    /\ FetchFrame

FetchServerError(status) ==
    /\ InFetch
    /\ status \notin {200, 404, 429}
    /\ status >= 500
    /\ RetryOrFallThrough(Get(status))
    /\ FetchFrame

\* (a changed FetchUnexpectedStatus: every status but 200 and 404 is retried)
FetchUnexpectedStatusRetried(status) ==
    /\ InFetch
    /\ status \notin {200, 404, 429}
    /\ ~(status >= 500)
    /\ RetryOrFallThrough(Get(status))
    /\ FetchFrame

FetchUnexpectedStatus(status) ==
    /\ InFetch
    /\ status \notin {200, 404, 429}
    /\ ~(status >= 500)
    /\ calls' = Append(calls, Get(status))
    /\ Return(None)
    /\ FetchFrame

FetchTimeout ==
    /\ InFetch
    /\ RetryOrFallThrough(GetRaised("TimeoutException"))
    /\ FetchFrame

FetchNetworkError ==
    /\ InFetch
    /\ RetryOrFallThrough(GetRaised("NetworkError"))
    /\ FetchFrame

FetchHTTPError ==
    /\ InFetch
    /\ RetryOrFallThrough(GetRaised("HTTPError"))
    /\ FetchFrame

\* (a changed FetchUnexpectedError: every exception is retried)
FetchUnexpectedErrorRetried ==
    /\ InFetch
    /\ RetryOrFallThrough(GetRaised("Exception"))
    /\ FetchFrame

FetchUnexpectedError ==
    /\ InFetch
    /\ calls' = Append(calls, GetRaised("Exception"))
    /\ Return(None)
    /\ FetchFrame

\* the retry loop is exhausted: the final "return None"
FetchExhausted ==
    /\ pc = "fetch"
    /\ ~(attempt < max_retries)
    /\ Return(None)
    /\ UNCHANGED calls
    /\ FetchFrame

(***************************************************************************)
(* scrape_release_notes: the page loop.                                    *)
(***************************************************************************)
Bump(s, counter) == [s EXCEPT ![counter] = @ + 1]

\* "continue", or the end of the loop body: on to the next page id
NextIteration ==
    /\ page_id' = page_id + 1
    /\ pc' = "loop"

\* the loop takes the next page id and calls fetch_with_retry
NextPage ==
    /\ pc = "loop"
    /\ page_id <= end_id
    /\ stats' = Bump(stats, "total_pages_checked")
    /\ timeline' = Append(timeline, [fetch |-> page_id])
    /\ attempt' = 0
    /\ calls' = <<>>
    /\ pc' = "fetch"
    /\ UNCHANGED <<config, unit, page_id, html, locals, results, sections, outputs>>

\* (a changed FetchFailed: the failure leaves the loop, "break" for "continue")
FetchFailedBreaks ==
    /\ pc = "fetched"
    /\ ~Truthy(html)
    /\ stats' = Bump(stats, "not_found")
    /\ results' = Append(results,
                    ScrapeResult(page_id, Url(page_id), FALSE, None, None, FetchErrorMsg))
    /\ page_id' = end_id + 1
    /\ pc' = "loop"
    /\ UNCHANGED <<config, unit, attempt, calls, html, locals, sections, timeline, outputs>>

\* (a changed FetchFailed: the page is counted in failed_scrapes)
FetchFailedCountedFailed ==
    /\ pc = "fetched"
    /\ ~Truthy(html)
    /\ stats' = Bump(stats, "failed_scrapes")
    /\ results' = Append(results,
                    ScrapeResult(page_id, Url(page_id), FALSE, None, None, FetchErrorMsg))
    /\ NextIteration
    /\ UNCHANGED <<config, unit, attempt, calls, html, locals, sections, timeline, outputs>>

\* "if not html": the page is recorded as not found
FetchFailed ==
    /\ pc = "fetched"
    /\ ~Truthy(html)
    /\ stats' = Bump(stats, "not_found")
    /\ results' = Append(results,
                    ScrapeResult(page_id, Url(page_id), FALSE, None, None, FetchErrorMsg))
    /\ NextIteration
    /\ UNCHANGED <<config, unit, attempt, calls, html, locals, sections, timeline, outputs>>

ExtractTitle ==
    /\ pc = "fetched"
    /\ Truthy(html)
    /\ title' = extract_title(html)
    /\ pc' = "content"
    /\ UNCHANGED <<config, unit, page_id, attempt, calls, html, main_html, markdown, stats,
                   results, sections, timeline, outputs>>

\* (a changed ContentFailed: the result is recorded without the title)
ContentFailedNoTitle ==
    /\ pc = "content"
    /\ main_html' = extract_main_content(html)
    /\ ~Truthy(main_html')
    /\ stats' = Bump(stats, "failed_scrapes")
    /\ results' = Append(results,
                    ScrapeResult(page_id, Url(page_id), FALSE, None, None, ExtractErrorMsg))
    /\ NextIteration
    /\ UNCHANGED <<config, unit, attempt, calls, html, title, markdown, sections, timeline, outputs>>

\* "if not main_html": the page is recorded as failed
ContentFailed ==
    /\ pc = "content"
    /\ main_html' = extract_main_content(html)
    /\ ~Truthy(main_html')
    /\ stats' = Bump(stats, "failed_scrapes")
    /\ results' = Append(results,
                    ScrapeResult(page_id, Url(page_id), FALSE, title, None, ExtractErrorMsg))
    /\ NextIteration
    /\ UNCHANGED <<config, unit, attempt, calls, html, title, markdown, sections, timeline, outputs>>

ContentExtracted ==
    /\ pc = "content"
    /\ main_html' = extract_main_content(html)
    /\ Truthy(main_html')
    /\ pc' = "convert"
    /\ UNCHANGED <<config, unit, page_id, attempt, calls, html, title, markdown, stats, results,
                   sections, timeline, outputs>>

ConvertMarkup ==
    /\ pc = "convert"
    /\ markdown' = html_to_markdown(main_html)
    /\ pc' = "validate"
    /\ UNCHANGED <<config, unit, page_id, attempt, calls, html, title, main_html, stats, results,
                   sections, timeline, outputs>>

\* the f-string of a section, by its fields
Section(t, url, md) == [title |-> t, url |-> url, markdown |-> md]

\* (a changed ValidationFailed: the section is collected before the validation)
ValidationFailedKeepsSection ==
    /\ pc = "validate"
    /\ ~validate_content(markdown)
    /\ stats' = Bump(stats, "failed_scrapes")
    /\ sections' = Append(sections, <<page_id, Section(title, Url(page_id), markdown)>>)
    /\ results' = Append(results,
                    ScrapeResult(page_id, Url(page_id), FALSE, title, None, ValidationErrorMsg))
    /\ NextIteration
    /\ UNCHANGED <<config, unit, attempt, calls, html, locals, timeline, outputs>>

\* (a changed ValidationFailed: the failure is recorded but not counted)
ValidationFailedUncounted ==
    /\ pc = "validate"
    /\ ~validate_content(markdown)
    /\ results' = Append(results,
                    ScrapeResult(page_id, Url(page_id), FALSE, title, None, ValidationErrorMsg))
    /\ NextIteration
    /\ UNCHANGED <<config, unit, attempt, calls, html, locals, stats, sections, timeline, outputs>>

\* "if not validate_content(markdown)": the page is recorded as failed
ValidationFailed ==
    /\ pc = "validate"
    /\ ~validate_content(markdown)
    /\ stats' = Bump(stats, "failed_scrapes")
    /\ results' = Append(results,
                    ScrapeResult(page_id, Url(page_id), FALSE, title, None, ValidationErrorMsg))
    /\ NextIteration
    /\ UNCHANGED <<config, unit, attempt, calls, html, locals, sections, timeline, outputs>>

\* the page is recorded as scraped; then the polite delay
Success ==
    /\ pc = "validate"
    /\ validate_content(markdown)
    /\ stats' = Bump(stats, "successful_scrapes")
    /\ sections' = Append(sections, <<page_id, Section(title, Url(page_id), markdown)>>)
    /\ results' = Append(results,
                    ScrapeResult(page_id, Url(page_id), TRUE, title, markdown, None))
    /\ timeline' = Append(timeline, [sleep |-> "config.delay"])
    /\ NextIteration
    /\ UNCHANGED <<config, unit, attempt, calls, html, locals, outputs>>

(***************************************************************************)
(* scrape_release_notes: after the loop.                                   *)
(***************************************************************************)
\* (a changed SortByPageId: the sort is descending, reverse=True)
RECURSIVE SortDescending(_)
SortDescending(seq) ==
    IF seq = <<>> THEN <<>>
    ELSE LET last   == seq[Len(seq)]
             sorted == SortDescending(SubSeq(seq, 1, Len(seq) - 1))
             before == SelectSeq(sorted, LAMBDA x : x[1] >= last[1])
             after  == SelectSeq(sorted, LAMBDA x : x[1] < last[1])
         IN  before \o <<last>> \o after

\* list.sort(key=lambda x: x[0]): stable, ascending
RECURSIVE SortByPageId(_)
SortByPageId(seq) ==
    IF seq = <<>> THEN <<>>
    ELSE LET last   == seq[Len(seq)]
             sorted == SortByPageId(SubSeq(seq, 1, Len(seq) - 1))
             before == SelectSeq(sorted, LAMBDA x : x[1] <= last[1])
             after  == SelectSeq(sorted, LAMBDA x : x[1] > last[1])
         IN  before \o <<last>> \o after

\* the range is exhausted: the client is closed and the sections are sorted
LoopExit ==
    /\ pc = "loop"
    /\ ~(page_id <= end_id)
    /\ sections' = SortByPageId(sections)
    /\ pc' = "write"
    /\ UNCHANGED <<config, unit, page_id, attempt, calls, html, locals, stats, results, timeline,
                   outputs>>

\* the archive as written: the header lines and the sections joined in order
Archive(secs) ==
    [pages |-> <<start_id, end_id>>, sections |-> [i \in 1..Len(secs) |-> secs[i][2]]]

WriteFrame ==
    UNCHANGED <<config, unit, page_id, attempt, calls, html, locals, stats, results, sections,
                timeline>>

\* both files are written; the results are returned
WriteOutput ==
    /\ pc = "write"
    /\ archive' = Archive(sections)
    /\ stats_file' = to_dict(stats)
    /\ returned' = results
    /\ pc' = "done"
    /\ WriteFrame

\* (a changed WriteArchiveFails: the handler returns an empty list)
WriteArchiveFailsReturnsEmpty ==
    /\ pc = "write"
    /\ returned' = <<>>
    /\ pc' = "done"
    /\ UNCHANGED <<archive, stats_file>>
    /\ WriteFrame

\* creating or writing the archive raises: logged, the results are returned
WriteArchiveFails ==
    /\ pc = "write"
    /\ returned' = results
    /\ pc' = "done"
    /\ UNCHANGED <<archive, stats_file>>
    /\ WriteFrame

\* the archive is written, writing the statistics raises: logged likewise
WriteStatsFails ==
    /\ pc = "write"
    /\ archive' = Archive(sections)
    /\ returned' = results
    /\ pc' = "done"
    /\ UNCHANGED stats_file
    /\ WriteFrame

(***************************************************************************)
(* The run may be cut short.  A KeyboardInterrupt is no Exception, so no   *)
(* "except Exception" of the module catches it; and an exception raised    *)
(* in the loop outside the guarded stages is caught nowhere in             *)
(* scrape_release_notes.  Either one leaves the function without a return  *)
(* value and is handled in __main__ (lines 432-436).                       *)
(***************************************************************************)
InLoop == pc \in {"loop", "fetch", "fetched", "content", "convert", "validate"}

\* (a changed Interrupted: what was collected is written on the way out)
InterruptedWritesCollected ==
    /\ InLoop
    /\ pc' = "aborted"
    /\ archive' = Archive(SortByPageId(sections))
    /\ UNCHANGED <<config, unit, page_id, attempt, calls, html, locals, stats, results, sections,
                   timeline, stats_file, returned>>

\* the run is cut short before the write step is begun
Interrupted ==
    /\ InLoop
    /\ pc' = "aborted"
    /\ UNCHANGED <<config, unit, page_id, attempt, calls, html, locals, stats, results, sections,
                   timeline, outputs>>

\* the run is cut short in the write step: before the archive is opened,
\* after it is closed, or after the statistics are dumped as well
WriteInterrupted ==
    /\ pc = "write"
    /\ \E written \in {<<None, None>>,
                        <<Archive(sections), None>>,
                        <<Archive(sections), to_dict(stats)>>} :
          /\ archive' = written[1]
          /\ stats_file' = written[2]
    /\ pc' = "aborted"
    /\ UNCHANGED returned
    /\ WriteFrame

\* the steps of a run that is not cut short
Run ==
    \/ NextPage
    \/ FetchNotFound
    \/ FetchOK
    \/ FetchRateLimited
    \/ \E status \in Statuses : FetchServerError(status)
    \/ \E status \in Statuses : FetchUnexpectedStatus(status)
    \/ FetchTimeout
    \/ FetchNetworkError
    \/ FetchHTTPError
    \/ FetchUnexpectedError
    \/ FetchExhausted
    \/ FetchFailed
    \/ ExtractTitle
    \/ ContentFailed
    \/ ContentExtracted
    \/ ConvertMarkup
    \/ ValidationFailed
    \/ Success
    \/ LoopExit
    \/ WriteOutput
    \/ WriteArchiveFails
    \/ WriteStatsFails

Next ==
    \/ Run
    \/ Interrupted
    \/ WriteInterrupted

Spec == Init /\ [][Next]_vars

(***************************************************************************)
(* The run that is not cut short, with its progress: the process is        *)
(* sequential and each of its steps ends (client.get is bounded by         *)
(* config.timeout, time.sleep by its argument), so a step that can be      *)
(* taken is taken.                                                         *)
(***************************************************************************)
LiveSpec == Init /\ [][Run]_vars /\ WF_vars(Run)

(***************************************************************************)
(* One fetched page through the stages, for a wide set of pages: the       *)
(* run of the range [MinId, MinId] from the return of fetch_with_retry     *)
(* with the body of a 200 response to the recording of the page.           *)
(***************************************************************************)
Pads == {<<>>, <<" ", "\n">>}

\* what html2text may render a region to: text around the validation
\* threshold, a short text, an error page, or an exception
Markdowns ==
    {S(<<"\n", " ">> \o Rep("a", n) \o <<" ", "\n", "\n">>) :
        n \in (MinValidLength - Margin)..(MinValidLength + Margin)}
    \cup {PageThin.summary.md, PageError.summary.md, Raise(<<"e">>)}

\* what readability may return: an exception, an empty or blank region,
\* regions around the extraction threshold
Regions ==
    {Raise(<<"e">>), Fragment(<<>>, S(<<>>)), Fragment(<<" ", "\n", "\t">>, S(<<>>))}
    \cup {Fragment(pad \o Rep("x", n) \o pad, md) :
            pad \in Pads,
            n \in (MinContentLength - Margin)..(MinContentLength + Margin),
            md \in Markdowns}

Pages ==
    {PageEmpty}
    \cup {Page(400, t, PageShort.h1, region) : t \in {PageGood.title, PageShort.title},
                                               region \in Regions}

PageInit ==
    /\ start_id = MinId
    /\ end_id = MinId
    /\ max_retries = 1
    /\ pc = "fetched"
    /\ page_id = start_id
    /\ attempt = 0
    /\ html \in Pages
    /\ calls = <<GetOK(html)>>
    /\ title = None
    /\ main_html = None
    /\ markdown = None
    /\ stats = Bump(ScraperStats, "total_pages_checked")
    /\ results = <<>>
    /\ sections = <<>>
    /\ timeline = <<[fetch |-> page_id]>>
    /\ archive = None
    /\ stats_file = None
    /\ returned = None
    /\ arg = None
    /\ ret = None

PageNext ==
    \/ FetchFailed
    \/ ExtractTitle
    \/ ContentFailed
    \/ ContentExtracted
    \/ ConvertMarkup
    \/ ValidationFailed
    \/ Success

PageSpec == PageInit /\ [][PageNext]_vars

(***************************************************************************)
(* A stage called on its own, as a test calls it: pc is "call" before the  *)
(* call and "return" after it, arg names the stage and holds its argument, *)
(* ret holds what it returned.                                             *)
(***************************************************************************)
Word(n) == Rep("a", n)

\* phrases in the case a page would show them in, and two near misses
Phrases ==
    { <<"4","0","4"," ","N","o","t"," ","F","o","u","n","d">>,
      <<"P","a","g","e"," ","N","o","t"," ","F","o","u","n","d">>,
      <<"A","C","C","E","S","S"," ","D","E","N","I","E","D">>,
      <<"F","o","r","b","i","d","d","e","n">>,
      <<"E","r","r","o","r"," ","o","c","c","u","r","r","e","d">>,
      <<"p","a","g","e"," ","n","o","t"," "," ","f","o","u","n","d">>,
      <<"a","c","c","e","s","s","-","d","e","n","i","e","d">> }

\* the arguments of validate_content
Contents ==
    {None, S(<<>>), S(<<" ", "\n">>)}
    \cup {S(pad \o Word(n) \o pad) :
            pad \in Pads,
            n \in {MinValidLength - 10} \cup
                   (MinValidLength - Margin)..(MinValidLength + Margin)}
    \cup {S(Word(MinValidLength) \o <<" ">> \o phrase \o <<".">>) : phrase \in Phrases}
    \cup {S(<<"F","o","r","b","i","d","d","e","n">>)}

\* soup.title.string: no title element, a blank one, one to normalise, a
\* plain one; or the parser raises
Titles ==
    {None, Raise(<<"e">>), PageShort.title, PageGood.title, PageError.title, S(<<" ">>)}

\* the text of the first h1: none, an empty one, a blank one, some text
Headings == {None, S(<<>>), S(<<" ", "\n">>), PageH1.h1, PageShort.h1}

\* the arguments of extract_title
TitledPages == {Page(400, t, h, Raise(<<"e">>)) : t \in Titles, h \in Headings}

Arguments ==
    {[fn |-> "validate_content", content |-> c] : c \in Contents}
    \cup {[fn |-> "extract_title", html |-> page] : page \in TitledPages}
    \cup {[fn |-> "extract_main_content", html |-> Page(400, None, None, region)] :
            region \in Regions}
    \cup {[fn |-> "html_to_markdown", html |-> Fragment(Word(MinContentLength), md)] :
            md \in Markdowns}

UnitInit ==
    /\ start_id = MinId
    /\ end_id = MinId
    /\ max_retries = 0
    /\ pc = "call"
    /\ page_id = start_id
    /\ attempt = 0
    /\ calls = <<>>
    /\ html = None
    /\ title = None
    /\ main_html = None
    /\ markdown = None
    /\ stats = ScraperStats
    /\ results = <<>>
    /\ sections = <<>>
    /\ timeline = <<>>
    /\ archive = None
    /\ stats_file = None
    /\ returned = None
    /\ arg \in Arguments
    /\ ret = None

\* the call of arg.fn returns value
Called(fn, value) ==
    /\ pc = "call"
    /\ arg.fn = fn
    /\ ret' = [value |-> value]
    /\ pc' = "return"
    /\ UNCHANGED <<config, page_id, attempt, calls, html, locals, stats, results, sections,
                   timeline, outputs, arg>>

CallValidateContent ==
    /\ pc = "call" /\ arg.fn = "validate_content"
    /\ Called("validate_content", validate_content(arg.content))

CallExtractTitle ==
    /\ pc = "call" /\ arg.fn = "extract_title"
    /\ Called("extract_title", extract_title(arg.html))

CallExtractMainContent ==
    /\ pc = "call" /\ arg.fn = "extract_main_content"
    /\ Called("extract_main_content", extract_main_content(arg.html))

CallHtmlToMarkdown ==
    /\ pc = "call" /\ arg.fn = "html_to_markdown"
    /\ Called("html_to_markdown", html_to_markdown(arg.html))

UnitNext ==
    \/ CallValidateContent
    \/ CallExtractTitle
    \/ CallExtractMainContent
    \/ CallHtmlToMarkdown

UnitSpec == UnitInit /\ [][UnitNext]_vars

(***************************************************************************)
(* Vocabulary of the properties.                                           *)
(***************************************************************************)
Last(seq) == seq[Len(seq)]

IsGet(call) == call.op = "get"
HasStatus(call) == IsGet(call) /\ "status" \in DOMAIN call
HasRaised(call) == IsGet(call) /\ "raised" \in DOMAIN call

Gets(cs) == SelectSeq(cs, IsGet)

\* the attempt number (from 0) of the request at position k of calls
AttemptOf(k) == Len(Gets(SubSeq(calls, 1, k))) - 1

\* a transient failure: HTTP 429, any 5xx, a timeout, a network-level error
Transient(call) ==
    \/ HasStatus(call) /\ (call.status = 429 \/ call.status >= 500)
    \/ HasRaised(call) /\ call.raised \in {"TimeoutException", "NetworkError"}

\* the requests gs with a wait of 2^a between attempt a and attempt a+1,
\* and none after the last
WithBackoff(gs) ==
    [k \in 1..(IF gs = <<>> THEN 0 ELSE 2 * Len(gs) - 1) |->
        IF k % 2 = 1 THEN gs[(k + 1) \div 2] ELSE Sleep(2 ^ ((k \div 2) - 1))]

\* the page in work has been recorded and the next is not yet taken
PageRecorded == pc = "loop" /\ results # <<>>

CountOf(P(_)) == Cardinality({i \in 1..Len(results) : P(results[i])})
RecordedNotFound(r) == r.error = FetchErrorMsg

(***************************************************************************)
(* C1. Whatever the outcomes of the pages, the run produces exactly one    *)
(* ScrapeResult for each page id of the range, in the order of the ids:    *)
(* while the loop runs there is one result for each id before page_id,     *)
(* and once the loop is left, and in the list returned, there are          *)
(* end_id - start_id + 1 of them.  A failed page does not stop the loop.   *)
(***************************************************************************)
C1_OneResultPerPage ==
    /\ \A i \in 1..Len(results) : results[i].page_id = start_id + i - 1
    /\ Len(results) = page_id - start_id
    /\ pc \in {"write", "done"} => Len(results) = end_id - start_id + 1
    /\ pc = "done" =>
          /\ Len(returned) = end_id - start_id + 1
          /\ \A id \in start_id..end_id :
                Cardinality({i \in 1..Len(returned) : returned[i].page_id = id}) = 1

\* a run of three pages returned: a fetch failure, an extraction failure, a success
C1_Witness ==
    /\ pc = "done"
    /\ Len(returned) = 3
    /\ returned[1].error = FetchErrorMsg
    /\ returned[2].error = ExtractErrorMsg
    /\ returned[3].success

(***************************************************************************)
(* C2. Every fetch of a page id other than the first is directly preceded  *)
(* by the polite delay: after every processed page, whatever its outcome,  *)
(* config.delay is slept before the next fetch starts.  (Stated for the    *)
(* runs in which a fetch makes requests, max_retries >= 1.)                *)
(***************************************************************************)
C2_DelayBeforeEveryNextFetch ==
    max_retries >= 1 =>
        \A i \in 1..Len(timeline) :
            ("fetch" \in DOMAIN timeline[i] /\ timeline[i].fetch # start_id) =>
                (i > 1 /\ "sleep" \in DOMAIN timeline[i - 1])

(***************************************************************************)
(* C3. When every attempt of a fetch ends in a transient failure, the      *)
(* fetch makes exactly max_retries requests, waits 2^a after attempt a     *)
(* and before attempt a+1, does not wait after the last one, and returns   *)
(* None (Failure).                                                         *)
(***************************************************************************)
C3_AllTransientExhausts ==
    (\A k \in 1..Len(calls) : IsGet(calls[k]) => Transient(calls[k])) =>
        /\ Len(Gets(calls)) <= max_retries
        /\ \A k \in 1..Len(calls) :
              /\ k % 2 = 1 => IsGet(calls[k])
              /\ k % 2 = 0 => calls[k] = Sleep(2 ^ ((k \div 2) - 1))
        /\ pc = "fetched" =>
              /\ Len(Gets(calls)) = max_retries
              /\ calls = WithBackoff(Gets(calls))
              /\ html = None

\* three transient failures of three kinds with max_retries = 3
C3_Witness ==
    /\ pc = "fetched"
    /\ max_retries = 3
    /\ calls = <<Get(429), Sleep(1), GetRaised("TimeoutException"), Sleep(2), Get(500)>>
    /\ html = None

(***************************************************************************)
(* C4. A 404 response ends the fetch at once: it is the last thing the     *)
(* fetch does (no further request, no sleep), the fetch has returned None, *)
(* and when the first response is the 404 exactly one request was made.    *)
(***************************************************************************)
C4_NotFoundEndsFetch ==
    \A k \in 1..Len(calls) :
        calls[k] = Get(404) =>
            /\ k = Len(calls)
            /\ pc # "fetch"
            /\ pc = "fetched" => html = None
            /\ k = 1 => Len(Gets(calls)) = 1

\* a first response of 404, with retries to spare
C4_Witness ==
    /\ pc = "fetched"
    /\ max_retries = 3
    /\ calls = <<Get(404)>>
    /\ html = None

(***************************************************************************)
(* C5. When the first k attempts (1 <= k < max_retries) end in transient   *)
(* failures and the next returns 200, the fetch returns the body of that   *)
(* response, makes no further request, and has slept exactly               *)
(* 2^0, ..., 2^(k-1), one wait between consecutive attempts.               *)
(***************************************************************************)
C5_SuccessAfterRetries ==
    LET gs == Gets(calls)
        n  == Len(gs)
    IN  /\ \A k \in 1..Len(calls) :
              (HasStatus(calls[k]) /\ calls[k].status = 200) =>
                  (k = Len(calls) /\ pc # "fetch")
        /\ ( /\ pc = "fetched"
             /\ n >= 2
             /\ HasStatus(gs[n]) /\ gs[n].status = 200
             /\ \A i \in 1..(n - 1) : Transient(gs[i]) ) =>
               /\ n <= max_retries
               /\ html = gs[n].text
               /\ calls = WithBackoff(gs)
               /\ [i \in 1..(n - 1) |-> calls[2 * i].secs] = [i \in 1..(n - 1) |-> 2 ^ (i - 1)]

\* a 500, a network error, then a 200: the waits are 1 and 2
C5_Witness ==
    /\ pc = "fetched"
    /\ calls = <<Get(500), Sleep(1), GetRaised("NetworkError"), Sleep(2), GetOK(PageGood)>>
    /\ html = PageGood

(***************************************************************************)
(* C6. As claimed: a request that raises an error that is neither a        *)
(* timeout nor a network-level error is the last thing the fetch does,     *)
(* and the fetch returns None.                                             *)
(***************************************************************************)
C6_OtherErrorEndsFetch ==
    \A k \in 1..Len(calls) :
        (HasRaised(calls[k]) /\ calls[k].raised \notin {"TimeoutException", "NetworkError"}) =>
            /\ k = Len(calls)
            /\ pc = "fetched" => html = None

(***************************************************************************)
(* C6, amended. A request that raises an error that is no httpx.HTTPError  *)
(* (timeouts and network errors are HTTPErrors) is the last thing the      *)
(* fetch does, and the fetch has returned None.  An HTTPError that is      *)
(* neither a timeout nor a network error is retried like a transient       *)
(* failure: a wait of 2^a follows attempt a unless it is the last one.     *)
(***************************************************************************)
C6_NonHTTPErrorEndsFetch ==
    \A k \in 1..Len(calls) :
        /\ (HasRaised(calls[k]) /\ calls[k].raised = "Exception") =>
              /\ k = Len(calls)
              /\ pc # "fetch"
              /\ pc = "fetched" => html = None
        /\ (HasRaised(calls[k]) /\ calls[k].raised = "HTTPError") =>
              IF AttemptOf(k) < max_retries - 1
              THEN k < Len(calls) /\ calls[k + 1] = Sleep(2 ^ AttemptOf(k))
              ELSE k = Len(calls)

\* an HTTPError is retried, then an unforeseen exception ends the fetch
C6_Witness ==
    /\ pc = "fetched"
    /\ max_retries = 3
    /\ calls = <<GetRaised("HTTPError"), Sleep(1), GetRaised("Exception")>>
    /\ html = None

(***************************************************************************)
(* C7. A response whose status is none of 200, 404, 429 and 5xx is the     *)
(* last thing the fetch does (no further request, no sleep), and the       *)
(* fetch has returned None.                                                *)
(***************************************************************************)
C7_UnexpectedStatusEndsFetch ==
    \A k \in 1..Len(calls) :
        ( /\ HasStatus(calls[k])
          /\ calls[k].status \notin {200, 404, 429}
          /\ calls[k].status < 500 ) =>
            /\ k = Len(calls)
            /\ pc # "fetch"
            /\ pc = "fetched" => html = None

\* a 429 is retried, then a 403 ends the fetch
C7_Witness ==
    /\ pc = "fetched"
    /\ max_retries = 3
    /\ calls = <<Get(429), Sleep(1), Get(403)>>
    /\ html = None

(***************************************************************************)
(* C8. A page is recorded as not found, and counted in not_found, only     *)
(* when its fetch ended with a 404 response: not when the fetch failed     *)
(* otherwise, nor when a 200 response had an empty body.  (Stated for the  *)
(* fetches that made a request.)                                           *)
(***************************************************************************)
C8_NotFoundOnlyOn404 ==
    /\ stats.not_found = CountOf(RecordedNotFound)
    /\ (PageRecorded /\ calls # <<>> /\ RecordedNotFound(Last(results))) =>
          Last(calls) = Get(404)

(***************************************************************************)
(* C9. In the archive as written, the sections are in strictly ascending   *)
(* order of page id, so no page id appears twice, whatever the outcomes    *)
(* of the pages were; so are the collected sections once sorted.           *)
(***************************************************************************)
C9_ArchiveAscending ==
    /\ pc \in {"write", "done"} =>
          \A i, j \in 1..Len(sections) : i < j => sections[i][1] < sections[j][1]
    /\ archive # None =>
          /\ Len(archive.sections) = Len(sections)
          /\ \A i, j \in 1..Len(archive.sections) :
                i < j => archive.sections[i].url.page_id < archive.sections[j].url.page_id

\* an archive of two sections, written after a failed page between them
C9_Witness ==
    /\ pc = "done"
    /\ archive # None
    /\ Len(archive.sections) = 2
    /\ Len(results) = 3
    /\ ~results[2].success

(***************************************************************************)
(* C10. Processing a page whose fetch returns 404: taking the page counts  *)
(* it once in total_pages_checked, the fetch changes no counter and no     *)
(* section, and recording it adds 1 to not_found and nothing else: no      *)
(* section, successful_scrapes and failed_scrapes as they were.  For the   *)
(* range [5,5] with a 404, the archive has no section and the statistics   *)
(* show not_found = 1 and successful_scrapes = 0.                          *)
(***************************************************************************)
C10_NotFoundStep ==
    /\ (pc = "loop" /\ pc' = "fetch") =>
          /\ stats' = [stats EXCEPT !.total_pages_checked = @ + 1]
          /\ sections' = sections /\ results' = results
    /\ pc = "fetch" => UNCHANGED <<stats, sections, results>>
    /\ (pc = "fetched" /\ pc' = "loop" /\ calls # <<>> /\ Last(calls) = Get(404)) =>
          /\ stats' = [stats EXCEPT !.not_found = @ + 1]
          /\ stats.total_pages_checked = Len(results) + 1
          /\ stats'.total_pages_checked = Len(results')
          /\ sections' = sections
          /\ UNCHANGED outputs

C10_SinglePageNotFound ==
    (pc = "done" /\ start_id = 5 /\ end_id = 5 /\ calls # <<>> /\ Last(calls) = Get(404)) =>
        /\ sections = <<>>
        /\ archive # None => archive.sections = <<>>
        /\ stats.not_found = 1 /\ stats.successful_scrapes = 0
        /\ stats.total_pages_checked = 1 /\ stats.failed_scrapes = 0
        /\ stats_file # None =>
              (stats_file.not_found = 1 /\ stats_file.successful_scrapes = 0)

C10_NotFoundPage == [][C10_NotFoundStep]_vars /\ []C10_SinglePageNotFound

\* the range [5,5], a 404, and both files written
C10_Witness ==
    /\ pc = "done"
    /\ start_id = 5 /\ end_id = 5
    /\ calls = <<Get(404)>>
    /\ archive # None /\ archive.sections = <<>>
    /\ stats_file # None /\ stats_file.not_found = 1

(***************************************************************************)
(* C11. A page goes through its stages in the order Fetch, ExtractTitle,   *)
(* ExtractContent, ConvertMarkup, Validate, and the ScrapeResult recorded  *)
(* for it matches the stage it stopped at: a fetch stop records            *)
(* success = false, no title and no content; an extraction or validation   *)
(* stop records success = false, the extracted title, no content and a     *)
(* non-empty error; a success records success = true, the title, the       *)
(* markdown as content and no error.                                       *)
(***************************************************************************)
NonEmptyStr(v) == v # None /\ Text(v) # <<>>

FetchStopShape(r) ==
    ~r.success /\ r.title = None /\ r.content = None /\ NonEmptyStr(r.error)
LaterStopShape(r) ==
    ~r.success /\ NonEmptyStr(r.title) /\ r.content = None /\ NonEmptyStr(r.error)
SuccessShape(r) ==
    r.success /\ NonEmptyStr(r.title) /\ NonEmptyStr(r.content) /\ r.error = None

\* the stages in order, each leaving its value to the next
C11_StageOrder ==
    /\ pc = "loop" => pc' \in {"fetch", "write", "aborted"}
    /\ pc = "fetch" => pc' \in {"fetch", "fetched", "aborted"}
    /\ pc = "fetched" =>
          /\ pc' \in {"content", "loop", "aborted"}
          /\ pc' = "content" => (Truthy(html) /\ NonEmptyStr(title') /\ html' = html)
    /\ pc = "content" =>
          /\ pc' \in {"convert", "loop", "aborted"}
          /\ pc' = "convert" => (Truthy(main_html') /\ title' = title)
    /\ pc = "convert" =>
          /\ pc' \in {"validate", "aborted"}
          /\ pc' = "validate" => (markdown' # None /\ main_html' = main_html)
    /\ pc = "validate" => pc' \in {"loop", "aborted"}

\* the result recorded when a page is left, by the stage it is left at
C11_RecordedAtStop ==
    (pc' = "loop" /\ pc # "loop") =>
        /\ Len(results') = Len(results) + 1
        /\ SubSeq(results', 1, Len(results)) = results
        /\ Last(results').page_id = page_id
        /\ pc = "fetched" => (~Truthy(html) /\ FetchStopShape(Last(results')))
        /\ pc = "content" =>
              /\ LaterStopShape(Last(results'))
              /\ Last(results').title = title
              /\ Last(results').error = ExtractErrorMsg
        /\ pc = "validate" =>
              IF validate_content(markdown)
              THEN /\ SuccessShape(Last(results'))
                   /\ Last(results').title = title
                   /\ Last(results').content = markdown
              ELSE /\ LaterStopShape(Last(results'))
                   /\ Last(results').title = title
                   /\ Last(results').error = ValidationErrorMsg

C11_EveryResultShaped ==
    \A i \in 1..Len(results) :
        FetchStopShape(results[i]) \/ LaterStopShape(results[i]) \/ SuccessShape(results[i])

C11_StagesAndResults ==
    [][C11_StageOrder /\ C11_RecordedAtStop]_vars /\ []C11_EveryResultShaped

\* three pages left at three stages: validation, success, fetch
C11_Witness ==
    /\ pc = "loop"
    /\ Len(results) = 3
    /\ LaterStopShape(results[1]) /\ results[1].error = ValidationErrorMsg
    /\ SuccessShape(results[2])
    /\ FetchStopShape(results[3])

(***************************************************************************)
(* C12. A failure while writing the archive or the statistics file does    *)
(* not abort the run and does not change the result list: the write step   *)
(* leaves results as it was, and when a file was not written the function  *)
(* has still returned that list, one ScrapeResult for each page id of the  *)
(* range in order.                                                         *)
(***************************************************************************)
WriteFailed == pc = "done" /\ (archive = None \/ stats_file = None)

C12_WriteStep ==
    pc = "write" =>
        /\ results' = results
        /\ (pc' = "done" /\ (archive' = None \/ stats_file' = None)) => returned' = results

C12_ReturnedAfterWriteFailure ==
    WriteFailed =>
        /\ returned = results
        /\ Len(returned) = end_id - start_id + 1
        /\ \A i \in 1..Len(returned) : returned[i].page_id = start_id + i - 1

C12_WriteFailureKeepsResults ==
    [][C12_WriteStep]_vars /\ []C12_ReturnedAfterWriteFailure

\* the archive could not be written; three results, a success among them
C12_Witness ==
    /\ pc = "done"
    /\ archive = None /\ stats_file = None
    /\ Len(returned) = 3
    /\ returned[2].success
    /\ returned = results

(***************************************************************************)
(* C13. The archive is written only after every page id of the range has   *)
(* been processed: while a file of the run exists, every id has its        *)
(* result; and a run cut short by an interrupt or an uncaught exception    *)
(* while an id is still unprocessed has written neither the archive nor    *)
(* the statistics file.                                                    *)
(***************************************************************************)
AllProcessed == page_id = end_id + 1 /\ Len(results) = end_id - start_id + 1

C13_ArchiveOnlyAfterRange ==
    /\ (archive # None \/ stats_file # None) => (AllProcessed /\ pc \in {"done", "aborted"})
    /\ (pc = "aborted" /\ ~AllProcessed) => (archive = None /\ stats_file = None)

\* cut short in the third page, with a section collected and a page failed
C13_Witness ==
    /\ pc = "aborted"
    /\ end_id = start_id + 2
    /\ Len(results) = 2
    /\ Len(sections) = 1
    /\ calls # <<>>
    /\ archive = None /\ stats_file = None /\ returned = None

(***************************************************************************)
(* C14. In the statistics as finalized, success_rate is the quotient       *)
(* successful_scrapes / total_pages_checked when total_pages_checked > 0   *)
(* and exactly 0 when it is 0 (an empty range); it lies between 0 and 1.   *)
(* A rate is a fraction <<n, d>> with d > 0; it equals a / b when          *)
(* n * b = a * d.                                                          *)
(***************************************************************************)
RateIs(rate, a, b) == rate[2] > 0 /\ rate[1] * b = a * rate[2]
RateIsZero(rate) == rate[2] > 0 /\ rate[1] = 0
RateInUnitInterval(rate) == rate[2] > 0 /\ 0 <= rate[1] /\ rate[1] <= rate[2]

SuccessRateOf(d) ==
    /\ d.total_pages_checked > 0 =>
          RateIs(d.success_rate, d.successful_scrapes, d.total_pages_checked)
    /\ d.total_pages_checked = 0 => RateIsZero(d.success_rate)
    /\ RateInUnitInterval(d.success_rate)

C14_SuccessRate ==
    /\ SuccessRateOf(to_dict(stats))
    /\ stats_file # None =>
          /\ stats_file.total_pages_checked = stats.total_pages_checked
          /\ stats_file.successful_scrapes = stats.successful_scrapes
          /\ SuccessRateOf(stats_file)
          /\ start_id > end_id => RateIsZero(stats_file.success_rate)

\* statistics written after three pages, two of them scraped: a rate of 2/3
C14_Witness ==
    /\ pc = "done"
    /\ stats_file # None
    /\ stats_file.total_pages_checked = 3
    /\ stats_file.successful_scrapes = 2
    /\ stats_file.not_found = 1
    /\ stats_file.success_rate = <<2, 3>>

(***************************************************************************)
(* C15. Every page that gets past the ExtractContent stage (that is        *)
(* converted, validated or recorded as a success) has an extracted         *)
(* content region of at least 100 characters after trimming; a region      *)
(* that is absent, empty, blank or shorter than 100 characters after       *)
(* trimming ends the page with an extraction failure.                      *)
(***************************************************************************)
TrimmedLen(v) == Len(Strip(Text(v)))

\* the region readability found in the page is there and long enough
Meaningful(region) == ~Raised(region) /\ region # None /\ TrimmedLen(region) >= 100

C15_AcceptedContentIsLong ==
    /\ pc \in {"convert", "validate"} =>
          /\ Meaningful(html.summary)
          /\ main_html = html.summary
          /\ TrimmedLen(main_html) >= 100
    /\ (pc = "loop" /\ results # <<>> /\ Truthy(html)) =>
          /\ (Last(results).success \/ Last(results).error = ValidationErrorMsg) =>
                (Meaningful(html.summary) /\ TrimmedLen(main_html) >= 100)
          /\ ~Meaningful(html.summary) =>
                /\ ~Last(results).success
                /\ Last(results).error = ExtractErrorMsg
                /\ Last(results).content = None
                /\ sections = <<>>

\* a blank region has ended its page with an extraction failure
C15_Witness ==
    /\ pc = "loop"
    /\ html.summary = Fragment(<<" ", "\n", "\t">>, S(<<>>))
    /\ Len(results) = 1
    /\ results[1].error = ExtractErrorMsg
    /\ stats.failed_scrapes = 1

(***************************************************************************)
(* C16. validate_content returns False when the content is absent, empty   *)
(* or shorter than 50 characters after trimming, returns False when the    *)
(* lowercased content contains one of the five error-indicator phrases,    *)
(* and returns True in every other case: content of trimmed length 40      *)
(* fails, content of trimmed length exactly 50 with no phrase passes.      *)
(***************************************************************************)
Absent(c) == c = None \/ Text(c) = <<>>
TooShort(c) == ~Absent(c) /\ TrimmedLen(c) < 50
ShowsError(c) ==
    ~Absent(c) /\ \E indicator \in error_indicators : Contains(Lower(Text(c)), indicator)

ValidateReturned == pc = "return" /\ arg.fn = "validate_content"

C16_ValidateContent ==
    ValidateReturned =>
        /\ ret.value = ~(Absent(arg.content) \/ TooShort(arg.content) \/ ShowsError(arg.content))
        /\ (~Absent(arg.content) /\ TrimmedLen(arg.content) = 40) => ret.value = FALSE
        /\ ( /\ ~Absent(arg.content)
              /\ TrimmedLen(arg.content) = 50
              /\ ~ShowsError(arg.content) ) => ret.value = TRUE

\* content of exactly 50 characters inside whitespace passes
C16_Witness ==
    /\ ValidateReturned
    /\ arg.content = S(<<" ", "\n">> \o Word(50) \o <<" ", "\n">>)
    /\ ret.value = TRUE

(***************************************************************************)
(* C17. extract_title returns the normalized declared title when it is     *)
(* non-empty; when the page has no declared title, or the declared title   *)
(* is empty after whitespace normalization, it returns the text of the     *)
(* first level-1 heading if that is non-empty; it returns "Untitled" only  *)
(* when both are missing or empty, or on a parsing error.                  *)
(***************************************************************************)
\* the declared title after normalization, and the text of the heading;
\* empty when there is none
Declared(page) ==
    IF page.title = None THEN <<>> ELSE Join(Words(Text(page.title)), <<" ">>)
Heading(page) ==
    IF page.h1 = None THEN <<>> ELSE Strip(Text(page.h1))

TitleReturned == pc = "return" /\ arg.fn = "extract_title"

C17_TitleFallback ==
    TitleReturned =>
        IF Raised(arg.html.title) THEN ret.value = Untitled
        ELSE IF Declared(arg.html) # <<>> THEN ret.value = S(Declared(arg.html))
        ELSE IF Heading(arg.html) # <<>> THEN ret.value = S(Heading(arg.html))
        ELSE ret.value = Untitled

(***************************************************************************)
(* C18. After each page id has been fully processed, and at the end of     *)
(* the run, total_pages_checked = successful_scrapes + failed_scrapes +    *)
(* not_found and total_pages_checked is the number of ScrapeResults so     *)
(* far: taking a page id adds 1 to total_pages_checked alone, and          *)
(* recording it adds 1 to exactly one of the three outcome counters.       *)
(***************************************************************************)
Outcomes(s) == s.successful_scrapes + s.failed_scrapes + s.not_found

\* between two pages, or after the last
BetweenPages == pc \in {"loop", "write", "done"}

C18_CountersBalanced ==
    /\ BetweenPages =>
          /\ stats.total_pages_checked = Outcomes(stats)
          /\ stats.total_pages_checked = Len(results)
    /\ pc \in {"fetch", "fetched", "content", "convert", "validate"} =>
          /\ stats.total_pages_checked = Outcomes(stats) + 1
          /\ stats.total_pages_checked = Len(results) + 1
    /\ pc \in {"write", "done"} => stats.total_pages_checked = end_id - start_id + 1

C18_CounterStep ==
    /\ (pc = "loop" /\ pc' = "fetch") =>
          /\ stats'.total_pages_checked = stats.total_pages_checked + 1
          /\ Outcomes(stats') = Outcomes(stats)
    /\ (pc # "loop" /\ pc' = "loop") =>
          /\ stats'.total_pages_checked = stats.total_pages_checked
          /\ Cardinality({c \in {"successful_scrapes", "failed_scrapes", "not_found"} :
                            stats'[c] = stats[c] + 1}) = 1
          /\ Cardinality({c \in {"successful_scrapes", "failed_scrapes", "not_found"} :
                            stats'[c] = stats[c]}) = 2
    /\ (pc' # "loop" /\ pc # "loop") => stats' = stats

C18_OneOutcomePerPage == [][C18_CounterStep]_vars /\ []C18_CountersBalanced

\* three pages processed, one of each outcome
C18_Witness ==
    /\ pc = "loop"
    /\ stats.total_pages_checked = 3
    /\ stats.successful_scrapes = 1
    /\ stats.failed_scrapes = 1
    /\ stats.not_found = 1
    /\ Len(results) = 3

(***************************************************************************)
(* C19. At every point of a run, the page ids that have a section          *)
(* collected for the archive are exactly the page ids whose ScrapeResult   *)
(* has success = true, and successful_scrapes is the number of collected   *)
(* sections; no failed or not-found page contributes a section.  (The      *)
(* points of a run are those between the steps of the model: the           *)
(* statements of the success branch, lines 293 to 309, are one step.)      *)
(***************************************************************************)
SectionIds == {sections[i][1] : i \in 1..Len(sections)}
SuccessIds == {results[i].page_id : i \in {j \in 1..Len(results) : results[j].success}}

C20_FetchBounded ==
    /\ Len(Gets(calls)) <= max_retries
    /\ pc = "fetch" => Len(Gets(calls)) = attempt

\* a step of the fetch returns, or uses up one of the max_retries attempts
C20_FetchStep ==
    pc = "fetch" =>
        \/ pc' = "fetched"
        \/ pc' = "fetch" /\ attempt' = attempt + 1 /\ attempt' <= max_retries

C20_Terminates ==
    /\ []C20_FetchBounded
    /\ [][C20_FetchStep]_vars
    /\ <>(pc = "write")

\* the write step is reached after a last fetch that used up three attempts
C20_Witness ==
    /\ pc = "write"
    /\ max_retries = 3
    /\ end_id = start_id + 1
    /\ Len(Gets(calls)) = 3
    /\ \A k \in 1..Len(calls) : IsGet(calls[k]) => Transient(calls[k])

====
